---------------------------- MODULE Spec2Model ----------------------------
(***************************************************************************)
(* Model of the groupie_tracker controller (controller/controller.go):     *)
(* the /api/clubs filter and pagination, the home and favorites views and  *)
(* the favorites cookie handlers.                                          *)
(*                                                                         *)
(* Go strings are sequences of one-character strings, so that Split, Join, *)
(* ToLower, Contains, Atoi and Sprintf("%d") are computed character by     *)
(* character.  Go's int is 64 bits wide (amd64); TLC's integers are not,   *)
(* so an int that can be large is a little-endian tuple of 16-bit limbs in *)
(* two's complement, and the arithmetic on it wraps modulo 2^64 as Go's.   *)
(***************************************************************************)
EXTENDS Integers, Sequences, FiniteSets, TLC

(***************************************************************************)
(* Strings                                                                 *)
(***************************************************************************)
Range(s) == { s[i] : i \in 1..Len(s) }

Upper == <<"A","B","C","D","E","F","G","H","I","J","K","L","M",
           "N","O","P","Q","R","S","T","U","V","W","X","Y","Z">>
Lower == <<"a","b","c","d","e","f","g","h","i","j","k","l","m",
           "n","o","p","q","r","s","t","u","v","w","x","y","z">>

\* strings.ToLower on the ASCII letters
LowerOf == [c \in Range(Upper) |-> Lower[CHOOSE i \in 1..Len(Upper) : Upper[i] = c]]
ToLowerChar(c) == IF c \in DOMAIN LowerOf THEN LowerOf[c] ELSE c

ToLower(s) == [i \in 1..Len(s) |-> ToLowerChar(s[i])]

\* strings.Contains(s, sub); the empty string is contained in every string
Contains(s, sub) ==
    \E i \in 0..(Len(s) - Len(sub)) :
        \A j \in 1..Len(sub) : s[i + j] = sub[j]

\* strings.Split(s, ","): one more element than s has separators
RECURSIVE SplitFrom(_, _, _)
SplitFrom(s, i, cur) ==
    IF i > Len(s) THEN <<cur>>
    ELSE IF s[i] = "," THEN <<cur>> \o SplitFrom(s, i + 1, <<>>)
    ELSE SplitFrom(s, i + 1, Append(cur, s[i]))

Split(s) == SplitFrom(s, 1, <<>>)

\* strings.Join(elems, ",")
RECURSIVE Join(_)
Join(elems) ==
    IF Len(elems) = 0 THEN <<>>
    ELSE IF Len(elems) = 1 THEN elems[1]
    ELSE elems[1] \o <<",">> \o Join(Tail(elems))

Digits == <<"0","1","2","3","4","5","6","7","8","9">>
DigitOf == [c \in Range(Digits) |-> (CHOOSE i \in 1..Len(Digits) : Digits[i] = c) - 1]
IsDigit(c) == c \in DOMAIN DigitOf
DigitVal(c) == DigitOf[c]

\* fmt.Sprintf("%d", n)
RECURSIVE NatToA(_)
NatToA(n) == IF n < 10 THEN <<Digits[n + 1]>>
             ELSE Append(NatToA(n \div 10), Digits[(n % 10) + 1])

Itoa(n) == IF n < 0 THEN <<"-">> \o NatToA(-n) ELSE NatToA(n)

(***************************************************************************)
(* Go's int: 64 bits, two's complement, as 16-bit limbs (least first)      *)
(***************************************************************************)
IntBits == 64
Limb == 2^16
NLimbs == IntBits \div 16

\* a * k + c on the limbs from i on; the last element is the carry out
RECURSIVE MulAddFrom(_, _, _, _)
MulAddFrom(a, k, c, i) ==
    IF i > NLimbs THEN <<c>>
    ELSE LET t == a[i] * k + c
         IN  <<t % Limb>> \o MulAddFrom(a, k, t \div Limb, i + 1)

\* a + b + c limb by limb; the last element is the carry out
RECURSIVE AddFrom(_, _, _, _)
AddFrom(a, b, c, i) ==
    IF i > NLimbs THEN <<c>>
    ELSE LET t == a[i] + b[i] + c
         IN  <<t % Limb>> \o AddFrom(a, b, t \div Limb, i + 1)

Zero64 == [i \in 1..NLimbs |-> 0]
IsNeg(a) == a[NLimbs] >= Limb \div 2

\* int arithmetic: the result wraps modulo 2^64
Add64(a, b) == SubSeq(AddFrom(a, b, 0, 1), 1, NLimbs)
Neg64(a) == SubSeq(AddFrom([i \in 1..NLimbs |-> Limb - 1 - a[i]], Zero64, 1, 1), 1, NLimbs)
Sub64(a, b) == Add64(a, Neg64(b))
\* a * k for 0 <= k < 2^15
Mul64(a, k) == SubSeq(MulAddFrom(a, k, 0, 1), 1, NLimbs)

\* a small int -2^31 < n < 2^31 as an int
RECURSIVE NatLimbs(_, _)
NatLimbs(n, i) == IF i > NLimbs THEN <<>> ELSE <<n % Limb>> \o NatLimbs(n \div Limb, i + 1)

I64(n) == IF n >= 0 THEN NatLimbs(n, 1) ELSE Neg64(NatLimbs(-n, 1))

\* unsigned a < b, from the most significant limb down
RECURSIVE ULtFrom(_, _, _)
ULtFrom(a, b, i) ==
    IF i = 0 THEN FALSE
    ELSE IF a[i] # b[i] THEN a[i] < b[i]
    ELSE ULtFrom(a, b, i - 1)

\* signed a < b
Lt64(a, b) == IF IsNeg(a) # IsNeg(b) THEN IsNeg(a) ELSE ULtFrom(a, b, NLimbs)
Gt64(a, b) == Lt64(b, a)

\* the value of an int known to lie in 0 .. 2^31 - 1
ToNat(a) == a[1] + a[2] * Limb

(***************************************************************************)
(* strconv.Atoi: an optional sign, then decimal digits; a syntax error on  *)
(* anything else and a range error outside -2^63 .. 2^63-1.                *)
(***************************************************************************)
\* the magnitude of the digits from i on, added to acc; over is set as soon
\* as it no longer fits 64 bits
RECURSIVE ParseDigits(_, _, _)
ParseDigits(s, i, acc) ==
    IF i > Len(s) THEN [val |-> acc, over |-> FALSE]
    ELSE LET r == MulAddFrom(acc, 10, DigitVal(s[i]), 1)
         IN  IF r[NLimbs + 1] # 0 THEN [val |-> Zero64, over |-> TRUE]
             ELSE ParseDigits(s, i + 1, SubSeq(r, 1, NLimbs))

MinInt64 == [i \in 1..NLimbs |-> IF i = NLimbs THEN Limb \div 2 ELSE 0]

Atoi(s) ==
    LET signed == Len(s) > 0 /\ s[1] \in {"+", "-"}
        body   == IF signed THEN Tail(s) ELSE s
        mag    == ParseDigits(body, 1, Zero64)
        neg    == signed /\ s[1] = "-"
    IN  IF Len(body) = 0 \/ \E i \in 1..Len(body) : ~IsDigit(body[i])
        THEN [err |-> TRUE, val |-> Zero64]
        ELSE IF mag.over \/ (IsNeg(mag.val) /\ ~(neg /\ mag.val = MinInt64))
        THEN [err |-> TRUE, val |-> Zero64]
        ELSE [err |-> FALSE, val |-> IF neg THEN Neg64(mag.val) ELSE mag.val]

(***************************************************************************)
(* Inputs                                                                  *)
(***************************************************************************)
\* models.Club; Website, Venue and CrestURL are read by no handler
Club(id, name, short, tla, founded) ==
    [ID |-> id, Name |-> name, ShortName |-> short, TLA |-> tla, Founded |-> founded]

\* what models.LoadClubsFromFile("data/clubs.json") returns: a club list, or
\* the empty list the handlers substitute when loading fails
ClubsFile ==
    << Club(1, <<"A","r","s","e","n","a","l">>, <<"A","r","s","e","n","a","l">>, <<"A","R","S">>, 1886),
       Club(2, <<"C","h","e","l","s","e","a">>, <<"C","h","e","l","s","e","a">>, <<"C","H","E">>, 1905),
       Club(12, <<"A","j","a","x">>, <<"A","j","a","x">>, <<"A","J","A">>, 1900),
       Club(21, <<"R","e","i","m","s">>, <<"S","t","a","d","e">>, <<"S","D","R">>, 0) >>

Datasets == { ClubsFile, <<>> }

\* the URL query: search, minYear, maxYear, page and pageSize (a parameter
\* that is missing reads as "")
SearchInputs == { <<>>, <<"a">>, <<"A","r","s">>, <<"S","D","R">> }
MinYearInputs == { <<>>, <<"1","9","0","0">>, <<"a","b","c">> }
MaxYearInputs == { <<>>, <<"1","9","0","0">>, <<"9","9","9","9","9","9","9","9","9","9","9","9","9","9","9","9","9","9","9","9">> }
EmptyQuery ==
    [search |-> <<>>, minYear |-> <<>>, maxYear |-> <<>>, page |-> <<>>,
     pageSize |-> <<>>]

\* the pages a client walks through, besides the extreme ones
MaxPage == 5
PageInputs ==
    { Itoa(p) : p \in 0..MaxPage } \cup
    { <<>>, <<"a","b","c">>, <<"9","2","2","3","3","7","2","0","3","6","8","5","4","7","7","5","8","0","7">>, <<"4","6","1","1","6","8","6","0","1","8","4","2","7","3","8","7","9","0","5">>, <<"4","6","1","1","6","8","6","0","1","8","4","2","7","3","8","7","9","0","4">> }
PageSizeInputs == { <<>>, <<"0">>, <<"1">>, <<"2">>, <<"4">>, <<"5","0">>, <<"5","1">> }

Queries ==
    [search : SearchInputs, minYear : MinYearInputs, maxYear : MaxYearInputs,
     page : PageInputs, pageSize : PageSizeInputs]

\* the queries of the browser session
SessionQueries ==
    { EmptyQuery,
      [EmptyQuery EXCEPT !.search = <<"a">>, !.minYear = <<"1","9","0","0">>] }

Methods == { "GET", "POST" }
Referers == { "", "/favorites?from=home" }
\* the club_id form value: any string the client sends ("" when missing)
ClubIDInputs == { <<>>, <<"1">>, <<"2">>, <<"1","2">>, <<",">>, <<",","1">> }

\* the longest favorites cookie value the browser is taken to keep
MaxCookieLen == 3

VARIABLES
    clubs,    \* the content of data/clubs.json as the handlers load it
    jar,      \* the browser's "favorites" cookie: absent, or its raw value
    query,    \* the search form the browser submits with GET / and /api/clubs
    resp,     \* the last request served and the response to it
    added     \* history: the ids added and not since removed or cleared

vars == <<clubs, jar, query, resp, added>>

(***************************************************************************)
(* The favorites cookie                                                    *)
(***************************************************************************)
\* http.SetCookie writes a value holding a space or a comma between quotes
SanitizeCookieValue(v) ==
    IF Len(v) > 0 /\ (\E i \in 1..Len(v) : v[i] \in {" ", ","})
    THEN <<"\"">> \o v \o <<"\"">>
    ELSE v

\* r.Cookie strips the quotes around a raw value
ParseCookieValue(raw) ==
    IF Len(raw) > 1 /\ raw[1] = "\"" /\ raw[Len(raw)] = "\""
    THEN SubSeq(raw, 2, Len(raw) - 1)
    ELSE raw

NoCookie == [present |-> FALSE, raw |-> <<>>]

GetFavoritesFromCookie(j) ==
    IF ~j.present THEN <<>>
    ELSE IF ParseCookieValue(j.raw) = <<>> THEN <<>>
    ELSE Split(ParseCookieValue(j.raw))

CookieMaxAge == 30 * 24 * 60 * 60

FavoritesCookie(value, maxAge) ==
    [Name |-> "favorites", Value |-> value, Path |-> "/", MaxAge |-> maxAge,
     HttpOnly |-> FALSE]

\* the browser applies the response's Set-Cookie headers: a negative
\* Max-Age deletes the cookie, any other one stores the value as sent
Browser(j, setCookies) ==
    IF setCookies = <<>> THEN j
    ELSE IF setCookies[1].MaxAge < 0 THEN NoCookie
    ELSE [present |-> TRUE, raw |-> SanitizeCookieValue(setCookies[1].Value)]

StatusSeeOther == 303

\* mutant: the Referer header is not read
redirectBackIgnoresReferer(referer, defaultURL) ==
    [status |-> StatusSeeOther, location |-> defaultURL]

redirectBack(referer, defaultURL) ==
    [status |-> StatusSeeOther,
     location |-> IF referer = "" THEN defaultURL ELSE referer]

\* the Set-Cookie headers of AddFavorite
AddFavoriteCookies(method, clubID, favorites) ==
    IF method # "POST" THEN <<>>
    ELSE IF clubID = <<>> THEN <<>>
    ELSE IF \E i \in 1..Len(favorites) : favorites[i] = clubID THEN <<>>
    ELSE << FavoritesCookie(Join(Append(favorites, clubID)), CookieMaxAge) >>

\* mutant: the method is not checked
RemoveFavoriteCookiesAnyMethod(method, clubID, favorites) ==
    IF clubID = <<>> THEN <<>>
    ELSE << FavoritesCookie(Join(SelectSeq(favorites, LAMBDA fav : fav # clubID)),
                            CookieMaxAge) >>

\* the Set-Cookie headers of RemoveFavorite
RemoveFavoriteCookies(method, clubID, favorites) ==
    IF method # "POST" THEN <<>>
    ELSE IF clubID = <<>> THEN <<>>
    ELSE << FavoritesCookie(Join(SelectSeq(favorites, LAMBDA fav : fav # clubID)),
                            CookieMaxAge) >>

\* mutant: the cookie is emptied but keeps the 30-day lifetime
ClearFavoritesCookiesNotExpired(method) ==
    IF method # "POST" THEN <<>>
    ELSE << FavoritesCookie(<<>>, CookieMaxAge) >>

\* the Set-Cookie headers of ClearFavorites
ClearFavoritesCookies(method) ==
    IF method # "POST" THEN <<>>
    ELSE << FavoritesCookie(<<>>, -1) >>

ClearFavoritesRedirect(referer) ==
    [status |-> StatusSeeOther, location |-> "/favorites"]

Fits(setCookies) ==
    IF setCookies = <<>> THEN TRUE ELSE Len(setCookies[1].Value) <= MaxCookieLen

Mutates(method, clubID) == method = "POST" /\ clubID # <<>>

AddFavorite(method, clubID, referer) ==
    LET setCookies == AddFavoriteCookies(method, clubID, GetFavoritesFromCookie(jar))
        redirect   == redirectBack(referer, "/")
    IN  /\ Fits(setCookies)
        /\ resp' = [handler |-> "AddFavorite", method |-> method, clubID |-> clubID,
                    referer |-> referer, cookieIn |-> jar, setCookies |-> setCookies,
                    status |-> redirect.status, location |-> redirect.location]
        /\ jar' = Browser(jar, setCookies)
        /\ added' = IF Mutates(method, clubID) /\ clubID \notin Range(added)
                    THEN Append(added, clubID) ELSE added
        /\ UNCHANGED <<clubs, query>>

RemoveFavorite(method, clubID, referer) ==
    LET setCookies == RemoveFavoriteCookies(method, clubID, GetFavoritesFromCookie(jar))
        redirect   == redirectBack(referer, "/")
    IN  /\ resp' = [handler |-> "RemoveFavorite", method |-> method, clubID |-> clubID,
                    referer |-> referer, cookieIn |-> jar, setCookies |-> setCookies,
                    status |-> redirect.status, location |-> redirect.location]
        /\ jar' = Browser(jar, setCookies)
        /\ added' = IF Mutates(method, clubID)
                    THEN SelectSeq(added, LAMBDA id : id # clubID) ELSE added
        /\ UNCHANGED <<clubs, query>>

ClearFavorites(method, referer) ==
    LET setCookies == ClearFavoritesCookies(method)
        redirect   == ClearFavoritesRedirect(referer)
    IN  /\ resp' = [handler |-> "ClearFavorites", method |-> method, clubID |-> <<>>,
                    referer |-> referer, cookieIn |-> jar, setCookies |-> setCookies,
                    status |-> redirect.status, location |-> redirect.location]
        /\ jar' = Browser(jar, setCookies)
        /\ added' = IF method = "POST" THEN <<>> ELSE added
        /\ UNCHANGED <<clubs, query>>

(***************************************************************************)
(* Filter                                                                  *)
(***************************************************************************)
\* mutant: the club's code is compared without lower-casing it
FilterKeepsCodeCaseSensitive(club, search, minYear, maxYear) ==
    IF search # <<>>
       /\ ~Contains(ToLower(club.Name), search)
       /\ ~Contains(ToLower(club.ShortName), search)
       /\ ~Contains(club.TLA, search)
    THEN FALSE
    ELSE IF minYear # <<>>
            /\ LET min == Atoi(minYear)
               IN  ~min.err /\ Lt64(I64(club.Founded), min.val)
    THEN FALSE
    ELSE IF maxYear # <<>>
            /\ LET max == Atoi(maxYear)
               IN  ~max.err /\ Gt64(I64(club.Founded), max.val)
    THEN FALSE
    ELSE TRUE

\* one turn of SearchAndFilter's loop: TRUE when the club is appended
\* (search is already lower-cased)
FilterKeeps(club, search, minYear, maxYear) ==
    IF search # <<>>
       /\ ~Contains(ToLower(club.Name), search)
       /\ ~Contains(ToLower(club.ShortName), search)
       /\ ~Contains(ToLower(club.TLA), search)
    THEN FALSE
    ELSE IF minYear # <<>>
            /\ LET min == Atoi(minYear)
               IN  ~min.err /\ Lt64(I64(club.Founded), min.val)
    THEN FALSE
    ELSE IF maxYear # <<>>
            /\ LET max == Atoi(maxYear)
               IN  ~max.err /\ Gt64(I64(club.Founded), max.val)
    THEN FALSE
    ELSE TRUE

RECURSIVE FilterFrom(_, _, _, _, _)
FilterFrom(cs, i, search, minYear, maxYear) ==
    IF i > Len(cs) THEN <<>>
    ELSE (IF FilterKeeps(cs[i], search, minYear, maxYear) THEN <<cs[i]>> ELSE <<>>)
         \o FilterFrom(cs, i + 1, search, minYear, maxYear)

\* one turn of HomeWithFavorites's loop
HomeFilterKeeps(club, search, minYearStr, maxYearStr) ==
    IF search # <<>>
       /\ ~Contains(ToLower(club.Name), search)
       /\ ~Contains(ToLower(club.ShortName), search)
       /\ ~Contains(ToLower(club.TLA), search)
    THEN FALSE
    ELSE IF minYearStr # <<>>
            /\ LET minYear == Atoi(minYearStr)
               IN  ~minYear.err /\ Lt64(I64(club.Founded), minYear.val)
    THEN FALSE
    ELSE IF maxYearStr # <<>>
            /\ LET maxYear == Atoi(maxYearStr)
               IN  ~maxYear.err /\ Gt64(I64(club.Founded), maxYear.val)
    THEN FALSE
    ELSE TRUE

RECURSIVE HomeFilterFrom(_, _, _, _, _)
HomeFilterFrom(cs, i, search, minYearStr, maxYearStr) ==
    IF i > Len(cs) THEN <<>>
    ELSE (IF HomeFilterKeeps(cs[i], search, minYearStr, maxYearStr)
          THEN <<cs[i]>> ELSE <<>>)
         \o HomeFilterFrom(cs, i + 1, search, minYearStr, maxYearStr)

(***************************************************************************)
(* Pagination                                                              *)
(***************************************************************************)
DefaultPage == 1
DefaultPageSize == 6
MaxPageSize == 50

\* page: the parsed value when it parses and is > 0, else 1
ParsePage(pageStr) ==
    LET p == Atoi(pageStr)
    IN  IF ~p.err /\ Gt64(p.val, Zero64) THEN p.val ELSE I64(DefaultPage)

\* pageSize: the parsed value when it parses and is in 1..50, else 6
ParsePageSize(pageSizeStr) ==
    LET ps == Atoi(pageSizeStr)
    IN  IF ~ps.err /\ Gt64(ps.val, Zero64) /\ ~Gt64(ps.val, I64(MaxPageSize))
        THEN ToNat(ps.val) ELSE DefaultPageSize

TotalPages(total, pageSize) == (total + pageSize - 1) \div pageSize

\* mutant: start is page * pageSize
SliceBoundsOffByOne(page, pageSize, total) ==
    LET start == Mul64(page, pageSize)
        end   == Add64(start, I64(pageSize))
    IN  [start |-> IF Gt64(start, I64(total)) THEN I64(total) ELSE start,
         end   |-> IF Gt64(end, I64(total)) THEN I64(total) ELSE end]

\* start and end as the code leaves them before slicing
SliceBounds(page, pageSize, total) ==
    LET start == Mul64(Sub64(page, I64(1)), pageSize)
        end   == Add64(start, I64(pageSize))
    IN  [start |-> IF Gt64(start, I64(total)) THEN I64(total) ELSE start,
         end   |-> IF Gt64(end, I64(total)) THEN I64(total) ELSE end]

\* filtered[start:end]: Go panics unless 0 <= start <= end <= cap(filtered);
\* end never exceeds len(filtered) here, so the capacity plays no part
Slice(filtered, bounds) ==
    IF IsNeg(bounds.start) \/ Lt64(bounds.end, bounds.start)
       \/ Gt64(bounds.end, I64(Len(filtered)))
    THEN [panic |-> TRUE, clubs |-> <<>>]
    ELSE [panic |-> FALSE,
          clubs |-> SubSeq(filtered, ToNat(bounds.start) + 1, ToNat(bounds.end))]

Paginate(filtered, page, pageSize) ==
    Slice(filtered, SliceBounds(page, pageSize, Len(filtered)))

\* GET /api/clubs.  A panic in a handler is recovered by net/http, which
\* drops the connection: the client gets no response
SearchAndFilter ==
    LET search   == ToLower(query.search)
        page     == ParsePage(query.page)
        pageSize == ParsePageSize(query.pageSize)
        filtered == FilterFrom(clubs, 1, search, query.minYear, query.maxYear)
        total    == Len(filtered)
        paged    == Paginate(filtered, page, pageSize)
    IN  /\ resp' = [handler |-> "SearchAndFilter", panic |-> paged.panic,
                    Clubs |-> paged.clubs, Total |-> total, Page |-> page,
                    PageSize |-> pageSize,
                    TotalPages |-> TotalPages(total, pageSize)]
        /\ UNCHANGED <<clubs, jar, query, added>>

(***************************************************************************)
(* Views                                                                   *)
(***************************************************************************)
\* favoriteIDMap: a map[string]bool that only ever holds true, as its key set
HomeFavoriteIDMap(favoriteIDs) == { favoriteIDs[i] : i \in 1..Len(favoriteIDs) }

RECURSIVE HomeFavoritesFrom(_, _, _)
HomeFavoritesFrom(cs, i, favoriteIDMap) ==
    IF i > Len(cs) THEN <<>>
    ELSE (IF Itoa(cs[i].ID) \in favoriteIDMap THEN <<cs[i]>> ELSE <<>>)
         \o HomeFavoritesFrom(cs, i + 1, favoriteIDMap)

FavoriteIDMap(favoriteIDs) == { favoriteIDs[i] : i \in 1..Len(favoriteIDs) }

\* mutant: the club's ID is looked up without Sprintf's sign and digits
\* beyond the first
RECURSIVE FavoritesFromFirstDigit(_, _, _)
FavoritesFromFirstDigit(cs, i, favoriteIDMap) ==
    IF i > Len(cs) THEN <<>>
    ELSE (IF <<Itoa(cs[i].ID)[1]>> \in favoriteIDMap THEN <<cs[i]>> ELSE <<>>)
         \o FavoritesFromFirstDigit(cs, i + 1, favoriteIDMap)

RECURSIVE FavoritesFrom(_, _, _)
FavoritesFrom(cs, i, favoriteIDMap) ==
    IF i > Len(cs) THEN <<>>
    ELSE (IF Itoa(cs[i].ID) \in favoriteIDMap THEN <<cs[i]>> ELSE <<>>)
         \o FavoritesFrom(cs, i + 1, favoriteIDMap)

\* GET /: the PageData handed to index.html
HomeWithFavorites ==
    LET search        == ToLower(query.search)
        favoriteIDMap == HomeFavoriteIDMap(GetFavoritesFromCookie(jar))
    IN  /\ resp' = [handler |-> "HomeWithFavorites", cookieIn |-> jar,
                    Clubs |-> HomeFilterFrom(clubs, 1, search, query.minYear,
                                             query.maxYear),
                    Favorites |-> HomeFavoritesFrom(clubs, 1, favoriteIDMap),
                    FavoriteIDs |-> favoriteIDMap,
                    SearchQuery |-> search, MinYear |-> query.minYear,
                    MaxYear |-> query.maxYear]
        /\ UNCHANGED <<clubs, jar, query, added>>

\* GET /favorites: the PageData handed to favorites.html
Favorites ==
    LET favoriteIDMap == FavoriteIDMap(GetFavoritesFromCookie(jar))
    IN  /\ resp' = [handler |-> "Favorites", cookieIn |-> jar,
                    Favorites |-> FavoritesFrom(clubs, 1, favoriteIDMap),
                    FavoriteIDs |-> favoriteIDMap]
        /\ UNCHANGED <<clubs, jar, query, added>>

(***************************************************************************)
(* Specifications                                                          *)
(***************************************************************************)
NoResponse == [handler |-> "none"]

\* a browser session on the favorites: it starts without the cookie
Init ==
    /\ clubs \in Datasets
    /\ jar = NoCookie
    /\ query \in SessionQueries
    /\ resp = NoResponse
    /\ added = <<>>

Next ==
    \/ \E m \in Methods, id \in ClubIDInputs, ref \in Referers : AddFavorite(m, id, ref)
    \/ \E m \in Methods, id \in ClubIDInputs, ref \in Referers : RemoveFavorite(m, id, ref)
    \/ \E m \in Methods, ref \in Referers : ClearFavorites(m, ref)
    \/ HomeWithFavorites
    \/ Favorites

Spec == Init /\ [][Next]_vars

\* one request per query to the two handlers that search the dataset
ApiInit ==
    /\ clubs \in Datasets
    /\ jar = NoCookie
    /\ query \in Queries
    /\ resp = NoResponse
    /\ added = <<>>

ApiNext ==
    \/ SearchAndFilter
    \/ HomeWithFavorites

ApiSpec == ApiInit /\ [][ApiNext]_vars

(***************************************************************************)
(* Claims                                                                  *)
(***************************************************************************)
Favs(j) == GetFavoritesFromCookie(j)
FavoriteHandlers == { "AddFavorite", "RemoveFavorite", "ClearFavorites" }
IsPostAdd(r) == r.handler = "AddFavorite" /\ r.method = "POST" /\ r.clubID # <<>>
IsPostRemove(r) == r.handler = "RemoveFavorite" /\ r.method = "POST" /\ r.clubID # <<>>
IsPostClear(r) == r.handler = "ClearFavorites" /\ r.method = "POST"
Min(m, n) == IF m < n THEN m ELSE n

\* C1: in SearchAndFilter, for every accepted page (any int > 0) and every
\* pageSize in 1..50, start and end are clamped into [0, total] with
\* start <= end, so that slicing never fails, and a page greater than
\* totalPages yields an empty page.
C1_SliceNeverFails ==
    resp.handler = "SearchAndFilter" =>
        LET bounds == SliceBounds(resp.Page, resp.PageSize, resp.Total)
        IN  /\ ~IsNeg(bounds.start)
            /\ ~Gt64(bounds.start, bounds.end)
            /\ ~Gt64(bounds.end, I64(resp.Total))
            /\ ~resp.panic
            /\ Gt64(resp.Page, I64(resp.TotalPages)) => resp.Clubs = <<>>

\* C2: Add is idempotent on the cookie: a POST Add(id) that follows a POST
\* Add(id) leaves the cookie as the first one left it, for every non-empty
\* id; and from an absent cookie Add(id) yields the value id.
C2_AddIdempotent ==
    [][ /\ (IsPostAdd(resp) /\ IsPostAdd(resp') /\ resp'.clubID = resp.clubID)
            => jar' = jar
        /\ (IsPostAdd(resp') /\ ~jar.present)
            => (jar'.present /\ ParseCookieValue(jar'.raw) = resp'.clubID) ]_vars

\* C3: a POST Remove(id) yields a set that does not contain id and equals
\* the set before minus {id} (the same set when id was not in it), and a
\* second Remove(id) yields the same set again.
C3_RemoveIsSetDifference ==
    IsPostRemove(resp) =>
        LET before == Range(Favs(resp.cookieIn))
            after  == Range(Favs(jar))
            again  == Browser(jar, RemoveFavoriteCookies("POST", resp.clubID, Favs(jar)))
        IN  /\ resp.clubID \notin after
            /\ after = before \ {resp.clubID}
            /\ Range(Favs(again)) = after

\* C4: Add, Remove and Clear mutate nothing unless the request is a POST,
\* and Add and Remove nothing when club_id is missing or empty: no
\* Set-Cookie is emitted, the cookie is unchanged, the response is the
\* redirect alone.
C4_NoMutationUnlessPost ==
    (/\ resp.handler \in FavoriteHandlers
     /\ \/ resp.method # "POST"
        \/ (resp.handler # "ClearFavorites" /\ resp.clubID = <<>>))
    => (resp.setCookies = <<>> /\ jar = resp.cookieIn /\ resp.status = 303)

C4_Witness ==
    /\ resp.handler = "RemoveFavorite"
    /\ resp.method = "GET"
    /\ resp.clubID \in Range(Favs(resp.cookieIn))
    /\ resp.clubID \in Range(Favs(jar))

\* C5, as claimed: every request to add-favorite, remove-favorite and
\* clear-favorites is answered with a 303 whose target is the Referer when
\* there is one, and a default URL only when there is none.
C5_RedirectsToReferer ==
    resp.handler \in FavoriteHandlers =>
        /\ resp.status = 303
        /\ resp.referer # "" => resp.location = resp.referer
        /\ resp.referer = "" => resp.location \in {"/", "/favorites"}

\* C5, amended: add-favorite and remove-favorite answer 303 to the Referer
\* when there is one and to "/" when there is none; clear-favorites answers
\* 303 to "/favorites" whatever the Referer.
C5_RedirectTargets ==
    /\ resp.handler \in {"AddFavorite", "RemoveFavorite"} =>
           /\ resp.status = 303
           /\ resp.location = (IF resp.referer # "" THEN resp.referer ELSE "/")
    /\ resp.handler = "ClearFavorites" =>
           (resp.status = 303 /\ resp.location = "/favorites")

C5_Witness ==
    /\ IsPostClear(resp)
    /\ resp.setCookies # <<>>
    /\ resp.referer # ""
    /\ resp.location = "/favorites"

\* the pages from p to the last one, one after the other
RECURSIVE ConcatPages(_, _, _, _)
ConcatPages(filtered, pageSize, p, last) ==
    IF p > last THEN <<>>
    ELSE Paginate(filtered, I64(p), pageSize).clubs
         \o ConcatPages(filtered, pageSize, p + 1, last)

\* C6: for every filtered list and every pageSize in 1..50, totalPages is
\* ceil(total / pageSize), a page returned has at most pageSize clubs (page
\* p of 1..totalPages being clubs (p-1)*pageSize+1 .. p*pageSize of the
\* list), and pages 1..totalPages one after the other are the filtered
\* list, each club once and in order.
C6_PagesPartitionTheList ==
    resp.handler = "SearchAndFilter" =>
        LET filtered == FilterFrom(clubs, 1, ToLower(query.search), query.minYear,
                                   query.maxYear)
            total    == resp.Total
            size     == resp.PageSize
            pages    == resp.TotalPages
        IN  /\ size \in 1..50
            /\ total = Len(filtered)
            /\ pages * size >= total
            /\ total > 0 => (pages - 1) * size < total
            /\ total = 0 => pages = 0
            /\ ~resp.panic => Len(resp.Clubs) <= size
            /\ \A p \in 1..pages :
                   resp.Page = I64(p) =>
                       /\ ~resp.panic
                       /\ resp.Clubs = SubSeq(filtered, (p - 1) * size + 1,
                                              Min(p * size, total))
            /\ \A p \in 1..pages : ~Paginate(filtered, I64(p), size).panic
            /\ ConcatPages(filtered, size, 1, pages) = filtered

C6_Witness ==
    /\ resp.handler = "SearchAndFilter"
    /\ ~resp.panic
    /\ resp.Total = 2
    /\ resp.PageSize = 1
    /\ resp.Page = I64(2)
    /\ resp.TotalPages = 2
    /\ resp.Clubs = << ClubsFile[3] >>

\* what the claim says of one club
Matches(club, q) ==
    /\ \/ q.search = <<>>
       \/ Contains(ToLower(club.Name), ToLower(q.search))
       \/ Contains(ToLower(club.ShortName), ToLower(q.search))
       \/ Contains(ToLower(club.TLA), ToLower(q.search))
    /\ \/ q.minYear = <<>>
       \/ Atoi(q.minYear).err
       \/ ~Lt64(I64(club.Founded), Atoi(q.minYear).val)
    /\ \/ q.maxYear = <<>>
       \/ Atoi(q.maxYear).err
       \/ ~Gt64(I64(club.Founded), Atoi(q.maxYear).val)

C8_ClearExpiresTheCookie ==
    /\ [](IsPostClear(resp) =>
              /\ Len(resp.setCookies) = 1
              /\ resp.setCookies[1].Name = "favorites"
              /\ resp.setCookies[1].Value = <<>>
              /\ resp.setCookies[1].MaxAge < 0
              /\ Favs(jar) = <<>>)
    /\ []((\/ IsPostRemove(resp)
           \/ (IsPostAdd(resp) /\ resp.clubID \notin Range(Favs(resp.cookieIn)))) =>
              /\ Len(resp.setCookies) = 1
              /\ resp.setCookies[1].Name = "favorites"
              /\ resp.setCookies[1].Path = "/"
              /\ resp.setCookies[1].MaxAge = 2592000)
    /\ [][(Favs(jar) = <<>> /\ ~IsPostAdd(resp')) => Favs(jar') = <<>>]_vars

C8_Witness ==
    /\ IsPostClear(resp)
    /\ Len(Favs(resp.cookieIn)) = 2
    /\ ~jar.present

\* C9: in HomeWithFavorites and Favorites, Favorites is the clubs of the
\* whole dataset whose ID in decimal is one of the cookie's ids, in dataset
\* order, and FavoriteIDs holds exactly the cookie's ids; an id that is no
\* club's is in FavoriteIDs and adds nothing to Favorites.
C9_FavoritesAreTheCookieClubs ==
    resp.handler \in {"HomeWithFavorites", "Favorites"} =>
        LET ids == Range(Favs(resp.cookieIn))
        IN  /\ resp.FavoriteIDs = ids
            /\ resp.Favorites = SelectSeq(clubs, LAMBDA club : Itoa(club.ID) \in ids)

C9_Witness ==
    /\ resp.handler = "Favorites"
    /\ resp.FavoriteIDs = { <<>>, <<"1">> }
    /\ resp.Favorites = << ClubsFile[1] >>

\* C10: from an absent cookie, after any POST Add, Remove and Clear requests
\* (each response cookie being the next request's cookie) the ids read from
\* the cookie hold no duplicate and no empty string, and are the ids added
\* and not since removed or cleared, in insertion order, for every
\* non-empty club_id, one holding "," included.
C10_CookieIsTheAddedIds ==
    LET favs == Favs(jar)
    IN  /\ \A i, j \in 1..Len(favs) : favs[i] = favs[j] => i = j
        /\ \A i \in 1..Len(favs) : favs[i] # <<>>
        /\ favs = added

=============================================================================
